---- MODULE Spec2Model ----
(***************************************************************************)
(* Model of augment_ds.py: the batch image augmenter.                      *)
(*                                                                         *)
(* A path is a record [dir, stem, suffix]: dir is the sequence of          *)
(* directory components, stem the file name without its last suffix (as a  *)
(* sequence of tokens, so that f"{stem}__{tag}" is a concatenation), and   *)
(* suffix the last extension exactly as spelled in the file name.          *)
(* shutil.copy2, Path.write_bytes and Path.mkdir are taken as atomic: they *)
(* either succeed or raise and leave the output tree unchanged.            *)
(***************************************************************************)
EXTENDS Integers, Sequences, FiniteSets, TLC

\* ------------------------------------------------------------------ bounds
\* Largest number of entries (files and directories) in the input tree.
MaxEntries == 2
\* Largest number of exceptions caught in one run (an uncaught one ends it).
MaxCaught == 1

\* --------------------------------------------------------------- the inputs
input_dir == <<"in">>
output_dir == <<"out">>

Entry(reldir, stem, suffix, isfile) ==
  [dir |-> input_dir \o reldir, stem |-> stem, suffix |-> suffix, is_file |-> isfile]

\* The entries an input tree is drawn from: recognized files whose extension
\* is spelled in upper, lower and mixed case, a stem that already ends in
\* "__blur", a file in a subdirectory, an unrecognized extension and a
\* directory named like an image.
Universe ==
  { Entry(<<>>, <<"a">>, ".PNG", TRUE),
    Entry(<<>>, <<"a", "__", "blur">>, ".png", TRUE),
    Entry(<<"sub">>, <<"b">>, ".Jpg", TRUE),
    Entry(<<>>, <<"notes">>, ".txt", TRUE),
    Entry(<<"sub">>, <<"d">>, ".png", FALSE) }

Trees == { t \in SUBSET Universe : Cardinality(t) <= MaxEntries }

\* Colour modes an opened image can have.
Modes == {"RGB", "RGBA", "LA", "L", "P", "CMYK"}

NoPath == [dir |-> <<>>, stem |-> <<>>, suffix |-> ""]
PathOf(e) == [dir |-> e.dir, stem |-> e.stem, suffix |-> e.suffix]

\* An image: the file it was decoded from, its colour mode, what lies under
\* its transparent regions ("n/a": never had alpha or still has it, "white":
\* composited over white, "dropped": alpha discarded by a direct conversion)
\* and the transform applied to the pixels.
Img(src, mode) == [src |-> src, mode |-> mode, bg |-> "n/a", op |-> "none"]
NoImage == Img(NoPath, "none")

\* ------------------------------------------------------- pathlib, str.lower
\* str.lower() on the suffixes of Universe.
Lower(s) ==
  CASE s = ".PNG" -> ".png"
    [] s = ".Jpg" -> ".jpg"
    [] OTHER -> s

\* Path.relative_to(input_dir): the path with the root's components removed.
relative_to(p, root) ==
  [p EXCEPT !.dir = SubSeq(p.dir, Len(root) + 1, Len(p.dir))]

\* output_dir / rel
Join(root, rel) == [rel EXCEPT !.dir = root \o rel.dir]

\* Path.parent of a file path: its directory.
parent(p) == p.dir

\* A fault: every output lands in the output root.
dest_dir_flat(src) == output_dir

\* (output_dir / rel).parent
dest_dir_of(src) == parent(Join(output_dir, relative_to(src, input_dir)))

\* dest_dir / name, where name is (stem, suffix)
InDir(d, stem, suffix) == [dir |-> d, stem |-> stem, suffix |-> suffix]

\* mkdir(parents=True): the directory and all its ancestors.
WithParents(d) == { SubSeq(d, 1, n) : n \in 1..Len(d) }

\* ------------------------------------------------------------ convert_rgb
Image_convert_RGB(img) ==
  [img EXCEPT !.mode = "RGB",
              !.bg = IF img.mode \in {"RGBA", "LA"} THEN "dropped" ELSE img.bg]

\* base = Image.new("RGB", size, white); base.paste(rgb, mask=alpha)
PasteOverWhite(rgb) == [rgb EXCEPT !.bg = "white"]

\* A fault: single-channel images are returned as they are.
convert_rgb_keeps_L(img) ==
  IF img.mode \in {"RGB", "L"} THEN img
  ELSE IF img.mode \in {"RGBA", "LA"} THEN PasteOverWhite(Image_convert_RGB(img))
  ELSE Image_convert_RGB(img)

convert_rgb(img) ==
  IF img.mode = "RGB" THEN img
  ELSE IF img.mode \in {"RGBA", "LA"} THEN PasteOverWhite(Image_convert_RGB(img))
  ELSE Image_convert_RGB(img)

\* ------------------------------------------------------------ true_image
recognize_formats == {".bmp", ".jpeg", ".jpg", ".png", ".tif", ".tiff", ".webp"}

\* A fault: the is_file() test is missing.
true_image_any_entry(e) == Lower(e.suffix) \in recognize_formats

true_image(e) == e.is_file /\ Lower(e.suffix) \in recognize_formats

\* ------------------------------------------------ guarantee_rgb_for_jpeg
guarantee_rgb_for_jpeg(img, ext) ==
  IF ext \in {".jpg", ".jpeg"} /\ img.mode \notin {"RGB", "L"}
  THEN Image_convert_RGB(img)
  ELSE img

\* ---------------------------------------------------------- augmentations
\* Every transform keeps the mode of the image it is given.
Transform(img, op) == [img EXCEPT !.op = op]

\* A fault: the two rotations are yielded in the other order.
augmentations_reordered(img) ==
  << <<"flipHorizontal", Transform(img, "mirror")>>,
     <<"flipVertical", Transform(img, "flip")>>,
     <<"rotate270", Transform(img, "rotate270")>>,
     <<"rotate90degrees", Transform(img, "rotate90")>>,
     <<"bright125", Transform(img, "brightness150")>>,
     <<"contrast125", Transform(img, "contrast150")>>,
     <<"sharp150", Transform(img, "sharpness150")>>,
     <<"blur", Transform(img, "BLUR")>> >>

augmentations(img) ==
  << <<"flipHorizontal", Transform(img, "mirror")>>,
     <<"flipVertical", Transform(img, "flip")>>,
     <<"rotate90degrees", Transform(img, "rotate90")>>,
     <<"rotate270", Transform(img, "rotate270")>>,
     <<"bright125", Transform(img, "brightness150")>>,
     <<"contrast125", Transform(img, "contrast150")>>,
     <<"sharp150", Transform(img, "sharpness150")>>,
     <<"blur", Transform(img, "BLUR")>> >>

\* -------------------------------------------------------------- save_image
FormatOf(ext) ==
  CASE Lower(ext) \in {".jpg", ".jpeg"} -> "JPEG"
    [] Lower(ext) = ".png" -> "PNG"
    [] Lower(ext) = ".bmp" -> "BMP"
    [] Lower(ext) \in {".tif", ".tiff"} -> "TIFF"
    [] Lower(ext) = ".webp" -> "WEBP"
    [] OTHER -> "PNG"

\* The bytes of a file of the output tree. An encoded image is told by its
\* format, its save options (quality=95, optimize=True for JPEG, none
\* otherwise), the mode it was saved in, and its pixels: those of the source
\* file it was decoded from, under one transform.
save_image(img, ext) ==
  [kind |-> "encoded", fmt |-> FormatOf(ext),
   quality |-> IF FormatOf(ext) = "JPEG" THEN 95 ELSE 0,
   src |-> img.src, mode |-> img.mode, op |-> img.op]

\* The bytes shutil.copy2 writes: those of the source file.
CopyOf(src) ==
  [kind |-> "copy", fmt |-> "source", quality |-> 0,
   src |-> src, mode |-> "source", op |-> "none"]

\* ------------------------------------------------------------------- state
VARIABLES
  tree,            \* the entries under input_dir
  copy_originals,  \* the parameter of process_dataset
  pc,              \* position in process_dataset
  images,          \* the list built by the rglob comprehension
  i,               \* index in images of src, the loop variable
  num_originals, num_augmented,
  dest_dir, ext, im, base,   \* locals of the loop body
  k,               \* position of the augmentations generator
  fs,              \* the files of the output tree: path -> bytes
  dirs,            \* the directories that exist in the output tree
  out,             \* the lines printed
  ret,             \* how the call ended: "none", "return 0", "return 1", "raise"
  log,             \* history: every write to the output tree, in order
  env,             \* history: the outcome each file's steps had
  caught           \* history: the number of exceptions caught so far

vars == <<tree, copy_originals, pc, images, i, num_originals, num_augmented,
          dest_dir, ext, im, base, k, fs, dirs, out, ret, log, env, caught>>

\* The program's state as one record, so that a step is a function of it.
State ==
  [tree |-> tree, copy_originals |-> copy_originals, pc |-> pc, images |-> images,
   i |-> i, num_originals |-> num_originals, num_augmented |-> num_augmented,
   dest_dir |-> dest_dir, ext |-> ext, im |-> im, base |-> base, k |-> k,
   fs |-> fs, dirs |-> dirs, out |-> out, ret |-> ret, log |-> log]

Apply(s) ==
  /\ tree' = s.tree
  /\ copy_originals' = s.copy_originals
  /\ pc' = s.pc
  /\ images' = s.images
  /\ i' = s.i
  /\ num_originals' = s.num_originals
  /\ num_augmented' = s.num_augmented
  /\ dest_dir' = s.dest_dir
  /\ ext' = s.ext
  /\ im' = s.im
  /\ base' = s.base
  /\ k' = s.k
  /\ fs' = s.fs
  /\ dirs' = s.dirs
  /\ out' = s.out
  /\ ret' = s.ret
  /\ log' = s.log

\* The state on entry to process_dataset(input_dir, output_dir, copy): main()
\* has created output_dir.
EntryState(t, copy) ==
  [tree |-> t, copy_originals |-> copy, pc |-> "start", images |-> <<>>,
   i |-> 0, num_originals |-> 0, num_augmented |-> 0,
   dest_dir |-> <<>>, ext |-> "", im |-> NoImage, base |-> NoImage, k |-> 0,
   fs |-> <<>>, dirs |-> WithParents(output_dir), out |-> <<>>, ret |-> "none",
   log |-> <<>>]

\* A printed line: its kind, the path it names, the cause it reports (0: open,
\* decode or normalize; k: the k-th variant) and the counts it reports.
Line(kind, src, cause, n) == [kind |-> kind, src |-> src, cause |-> cause, n |-> n]

\* A write to the output tree.
Written(kind, path, src) == [kind |-> kind, path |-> path, src |-> src]

\* Path.write_bytes / shutil.copy2 succeeding: the path now holds the bytes.
WriteFile(files, path, bytes) ==
  [p \in (DOMAIN files) \cup {path} |-> IF p = path THEN bytes ELSE files[p]]

\* The orders in which rglob can yield the elements of a set.
Orders(S) ==
  { o \in [1..Cardinality(S) -> S] : \A x \in S : \E n \in DOMAIN o : o[n] = x }

\* ------------------------------------------------------ process_dataset
\* images = [p for p in input_dir.rglob("*") if true_image(p)], the empty
\* case, and the counters' initialisation.
discover_step(s, order) ==
  IF Len(order) = 0
  THEN [s EXCEPT !.images = order,
                 !.out = Append(s.out, Line("no_images", NoPath, 0, <<0, 0>>)),
                 !.ret = "return 1", !.pc = "returned"]
  ELSE [s EXCEPT !.images = order, !.num_originals = 0, !.num_augmented = 0,
                 !.i = 1, !.pc = "mkdir"]

\* rel, dest_dir and dest_dir.mkdir(parents=True, exist_ok=True); not inside
\* any try, so a failure leaves process_dataset as an exception.
mkdir_step(s, ok) ==
  LET d == dest_dir_of(s.images[s.i]) IN
  IF ok
  THEN [s EXCEPT !.dest_dir = d, !.dirs = s.dirs \cup WithParents(d),
                 !.pc = IF s.copy_originals THEN "copy" ELSE "open"]
  ELSE [s EXCEPT !.dest_dir = d, !.ret = "raise", !.pc = "returned"]

\* A fault: the copy shares the try block of the augmentation, so a copy that
\* fails also skips the file's variants.
copy_step_skips_file(s, ok) ==
  LET src == s.images[s.i]
      path == InDir(s.dest_dir, src.stem, src.suffix) IN
  IF ok
  THEN [s EXCEPT !.fs = WriteFile(s.fs, path, CopyOf(src)),
                 !.log = Append(s.log, Written("original", path, src)),
                 !.num_originals = s.num_originals + 1,
                 !.pc = "open"]
  ELSE [s EXCEPT !.out = Append(s.out, Line("copy_failed", src, 0, <<0, 0>>)),
                 !.pc = "next"]

\* if copy_originals: try: shutil.copy2(...); num_originals += 1; except: print
copy_step(s, ok) ==
  LET src == s.images[s.i]
      path == InDir(s.dest_dir, src.stem, src.suffix) IN
  IF ok
  THEN [s EXCEPT !.fs = WriteFile(s.fs, path, CopyOf(src)),
                 !.log = Append(s.log, Written("original", path, src)),
                 !.num_originals = s.num_originals + 1,
                 !.pc = "open"]
  ELSE [s EXCEPT !.out = Append(s.out, Line("copy_failed", src, 0, <<0, 0>>)),
                 !.pc = "open"]

\* except Exception as e: print(f"[ERROR] Skipping {src}: {e}"), leaving the
\* with block; the for loop goes on.
skip_file(s, cause) ==
  [s EXCEPT !.out = Append(s.out, Line("skipping", s.images[s.i], cause, <<0, 0>>)),
            !.im = NoImage, !.base = NoImage, !.pc = "next"]

\* with Image.open(src) as im: im.load(); ext = ...; base = convert_rgb(im)
\* decoded is what Image.open and load gave.
open_step(s, ok, decoded) ==
  IF ok
  THEN [s EXCEPT !.im = decoded, !.ext = Lower(s.images[s.i].suffix),
                 !.base = convert_rgb(decoded), !.k = 1, !.pc = "aug"]
  ELSE skip_file(s, 0)

\* The image the loop body is about to hand to save_image.
aug_of(s) == guarantee_rgb_for_jpeg(augmentations(s.base)[s.k][2], s.ext)

\* f"{src.stem}__{suffix}{ext}" under dest_dir
out_path(s) ==
  InDir(s.dest_dir, s.images[s.i].stem \o <<"__", augmentations(s.base)[s.k][1]>>, s.ext)

\* One iteration of "for suffix, aug in augmentations(base)", and the end of
\* the with block once the generator is exhausted.
write_step(s, ok) ==
  IF ok
  THEN LET w == [s EXCEPT !.fs = WriteFile(s.fs, out_path(s), save_image(aug_of(s), s.ext)),
                          !.log = Append(s.log, Written("augmented", out_path(s), s.images[s.i])),
                          !.num_augmented = s.num_augmented + 1,
                          !.k = s.k + 1] IN
       IF s.k < Len(augmentations(s.base))
       THEN w
       ELSE [w EXCEPT !.im = NoImage, !.base = NoImage, !.pc = "next"]
  ELSE skip_file(s, s.k)

\* for src in images: the next file, or the end of the loop.
next_step(s) ==
  IF s.i < Len(s.images)
  THEN [s EXCEPT !.i = s.i + 1, !.pc = "mkdir"]
  ELSE [s EXCEPT !.pc = "report"]

\* The two final prints and return 0.
report_step(s) ==
  [s EXCEPT !.out = s.out \o << Line("completed", NoPath, 0, <<0, 0>>),
                               Line("data", NoPath, 0, <<s.num_originals, s.num_augmented>>) >>,
            !.ret = "return 0", !.pc = "returned"]

\* ----------------------------------------------------------------- actions
\* The outcome of one file's steps, before any has run.
NoOutcome == [mkdir |-> TRUE, open |-> TRUE, fail |-> 0]

\* Whether a step inside a try succeeds: it may raise while the run's bound
\* on caught exceptions allows.
Outcomes == IF caught < MaxCaught THEN BOOLEAN ELSE {TRUE}

Catch(ok) == caught' = IF ok THEN caught ELSE caught + 1

Init ==
  \E t \in Trees, copy \in BOOLEAN :
    /\ tree = t
    /\ copy_originals = copy
    /\ pc = "start"
    /\ images = <<>>
    /\ i = 0
    /\ num_originals = 0
    /\ num_augmented = 0
    /\ dest_dir = <<>>
    /\ ext = ""
    /\ im = NoImage
    /\ base = NoImage
    /\ k = 0
    /\ fs = <<>>
    /\ dirs = WithParents(output_dir)
    /\ out = <<>>
    /\ ret = "none"
    /\ log = <<>>
    /\ env = <<>>
    /\ caught = 0

Discover ==
  /\ pc = "start"
  /\ \E order \in Orders({ PathOf(e) : e \in { x \in tree : true_image(x) } }) :
       Apply(discover_step(State, order))
  /\ UNCHANGED <<env, caught>>

\* mkdir(parents=True, exist_ok=True) of a directory that exists succeeds.
MkDir ==
  /\ pc = "mkdir"
  /\ \E ok \in IF dest_dir_of(images[i]) \in dirs THEN {TRUE} ELSE BOOLEAN :
       /\ Apply(mkdir_step(State, ok))
       /\ env' = Append(env, [NoOutcome EXCEPT !.mkdir = ok])
  /\ caught' = caught

CopyOriginal ==
  /\ pc = "copy"
  /\ \E ok \in Outcomes :
       /\ Apply(copy_step(State, ok))
       /\ Catch(ok)
  /\ env' = env

\* Image.open or load raises, or gives an image of some mode.
OpenImage ==
  /\ pc = "open"
  /\ \/ /\ FALSE \in Outcomes
        /\ Apply(open_step(State, FALSE, NoImage))
        /\ env' = [env EXCEPT ![i].open = FALSE]
        /\ Catch(FALSE)
     \/ \E mode \in Modes :
          /\ Apply(open_step(State, TRUE, Img(images[i], mode)))
          /\ env' = env
          /\ Catch(TRUE)

WriteVariant ==
  /\ pc = "aug"
  /\ \E ok \in Outcomes :
       /\ Apply(write_step(State, ok))
       /\ env' = IF ok THEN env ELSE [env EXCEPT ![i].fail = k]
       /\ Catch(ok)

NextFile ==
  /\ pc = "next"
  /\ Apply(next_step(State))
  /\ UNCHANGED <<env, caught>>

Report ==
  /\ pc = "report"
  /\ Apply(report_step(State))
  /\ UNCHANGED <<env, caught>>

Next ==
  \/ Discover
  \/ MkDir
  \/ CopyOriginal
  \/ OpenImage
  \/ WriteVariant
  \/ NextFile
  \/ Report

Spec == Init /\ [][Next]_vars

\* ------------------------------------------------------- reading the state
\* The eight tags of the specification, in its order.
Tags == <<"flipHorizontal", "flipVertical", "rotate90degrees", "rotate270",
          "bright125", "contrast125", "sharp150", "blur">>

Files == 1..Len(images)

\* The paths written for source src as kind ("original" or "augmented"), in
\* the order of the writes.
WritesOf(history, src, kind) ==
  LET mine(w) == w.src = src /\ w.kind = kind
      sel == SelectSeq(history, mine) IN
  [n \in 1..Len(sel) |-> sel[n].path]

\* The lines of kind `kind` printed about src.
LinesOf(src, kind) ==
  LET mine(l) == l.src = src /\ l.kind = kind IN SelectSeq(out, mine)

\* File j's try block has been left, normally or through its except clause.
Finished(j) ==
  /\ j \in Files
  /\ \/ j < i
     \/ j = i /\ pc \in {"next", "report"}
     \/ pc = "returned" /\ ret = "return 0"

\* File j's try block raised.
Skipped(j) == Len(LinesOf(images[j], "skipping")) > 0

\* R.parent under the output root, for the source at input_dir / R.
Mirror(src) == output_dir \o SubSeq(src.dir, Len(input_dir) + 1, Len(src.dir))

\* The n-th variant's path for src: {stem}__{tag}{ext}, ext being the
\* source's suffix in lower case, in the mirrored directory.
VariantPath(src, n) ==
  [dir |-> Mirror(src), stem |-> src.stem \o <<"__", Tags[n]>>, suffix |-> Lower(src.suffix)]

VariantPaths(src, n) == [m \in 1..n |-> VariantPath(src, m)]

\* The specification's recognized set: a regular file whose extension,
\* compared case-insensitively, is one of the seven.
Recognized(e) ==
  e.is_file /\ Lower(e.suffix) \in {".bmp", ".jpeg", ".jpg", ".png", ".tif", ".tiff", ".webp"}

Rejected == { PathOf(e) : e \in { x \in tree : ~Recognized(x) } }
Accepted == { PathOf(e) : e \in { x \in tree : Recognized(x) } }

C2_ReturnCode ==
  pc = "returned" =>
    /\ ret \in {"return 0", "return 1"}
    /\ ret = "return 1" <=> Accepted = {}
    /\ ret = "return 1" => log = <<>> /\ DOMAIN fs = {} /\ env = <<>>
    /\ ret = "return 0" => out[Len(out)].kind = "data"

\* --------------------------------------------------------------------- C3
\* File j's augmentation step has been entered.
Entered(j) == j \in DOMAIN env /\ env[j].mkdir /\ (j < i \/ pc \notin {"mkdir", "copy"})

\* C3 as stated: when file j's try block raised with cause c (0: open, decode
\* or normalize; c: its c-th variant), exactly its first c-1 variants are
\* written and counted, the others never are, one diagnostic is printed, and
\* every later file is still processed.
C3_FailureIsLocal ==
  \A j \in Files :
    Skipped(j) =>
      LET c == LinesOf(images[j], "skipping")[1].cause
          n == IF c = 0 THEN 0 ELSE c - 1 IN
      /\ Len(LinesOf(images[j], "skipping")) = 1
      /\ WritesOf(log, images[j], "augmented") = VariantPaths(images[j], n)
      /\ num_augmented = Cardinality({ m \in DOMAIN log : log[m].kind = "augmented" })
      /\ pc = "returned" => \A later \in Files : later > j => Entered(later)

\* --------------------------------------------------------------------- C4
\* C4: a copy that fails leaves the originals counter as it was, prints one
\* diagnostic and goes on to the file's augmentation step just as a copy that
\* succeeds does; the counter moves only at a successful copy, by one.
C4_CopyFailureIsolated ==
  [][ /\ pc = "copy" =>
           LET src == images[i]
               path == [dir |-> Mirror(src), stem |-> src.stem, suffix |-> src.suffix] IN
           /\ pc' = "open"
           /\ <<i, images, dest_dir, dirs, num_augmented>>' = <<i, images, dest_dir, dirs, num_augmented>>
           /\ \/ /\ log' = Append(log, Written("original", path, src))
                 /\ path \in DOMAIN fs'
                 /\ num_originals' = num_originals + 1
                 /\ out' = out
              \/ /\ log' = log
                 /\ fs' = fs
                 /\ num_originals' = num_originals
                 /\ out' = Append(out, Line("copy_failed", src, 0, <<0, 0>>))
      /\ num_originals' # num_originals => pc = "copy"
    ]_vars

\* C4 witness: the copy of the current file failed, and its first two
\* variants have been written since.
C4_Witness ==
  /\ pc = "aug"
  /\ k = 3
  /\ Len(LinesOf(images[i], "copy_failed")) = 1
  /\ WritesOf(log, images[i], "original") = <<>>
  /\ num_originals = 0
  /\ num_augmented = 2

\* --------------------------------------------------------------------- C5
\* C5 as stated: every file written has the extension of its source exactly
\* as the source's name spells it.
C5_ExtensionAsSpelled ==
  \A n \in DOMAIN log : log[n].path.suffix = log[n].src.suffix

\* --------------------------------------------------------------------- C6
\* C6: every file written for the source at input_dir / R lies directly in
\* output_dir / R.parent, a directory that exists when it is written, and the
\* output tree holds no other file.
C6_TreeMirroring ==
  /\ \A n \in DOMAIN log :
       /\ log[n].path.dir = Mirror(log[n].src)
       /\ log[n].path.dir \in dirs
       /\ log[n].src \in Accepted
  /\ DOMAIN fs = { log[n].path : n \in DOMAIN log }

\* C6 witness: a variant has been written into the mirrored subdirectory.
C6_Witness ==
  \E n \in DOMAIN log : log[n].path.dir = <<"out", "sub">> /\ log[n].kind = "augmented"

\* --------------------------------------------------------------------- C7
\* The run replayed from a state s with the outcomes e the steps had. A file
\* decodes to the same image in both runs, and the bytes written name the
\* file, so the replay decodes every file as RGB.
OutcomeOf(e, j) == IF j \in DOMAIN e THEN e[j] ELSE NoOutcome

Replay(s, e) ==
  CASE s.pc = "mkdir" -> mkdir_step(s, OutcomeOf(e, s.i).mkdir)
    [] s.pc = "copy" -> copy_step(s, TRUE)
    [] s.pc = "open" -> open_step(s, OutcomeOf(e, s.i).open, Img(s.images[s.i], "RGB"))
    [] s.pc = "aug" -> write_step(s, OutcomeOf(e, s.i).fail # s.k)
    [] s.pc = "next" -> next_step(s)
    [] s.pc = "report" -> report_step(s)
    [] OTHER -> s

RECURSIVE Run(_, _)
Run(s, e) == IF s.pc = "returned" THEN s ELSE Run(Replay(s, e), e)

\* The same tree, traversal order and step outcomes with copy_originals=False.
WithoutCopies == Run(discover_step(EntryState(tree, FALSE), images), env)

AugmentedPaths(history) ==
  { history[n].path : n \in { m \in DOMAIN history : history[m].kind = "augmented" } }

\* C7 as stated: the run without copies writes no original and counts none,
\* and has the augmented paths, their final contents, the augmented counter
\* and the result of the run with copies.
C7_OnlyCopiesDiffer ==
  pc = "returned" /\ copy_originals =>
    LET r == WithoutCopies IN
    /\ \A n \in DOMAIN r.log : r.log[n].kind = "augmented"
    /\ r.num_originals = 0
    /\ r.num_augmented = num_augmented
    /\ r.ret = ret
    /\ AugmentedPaths(r.log) = AugmentedPaths(log)
    /\ \A p \in AugmentedPaths(log) : r.fs[p] = fs[p]

\* --------------------------------------------------------------------- C8
\* No write, no line and no list element is about a rejected path, and the
\* counters count only the writes (all of which are for accepted paths).
NothingForRejected ==
  /\ \A n \in DOMAIN log : log[n].src \notin Rejected
  /\ \A n \in DOMAIN out : out[n].src \notin Rejected
  /\ \A j \in Files : images[j] \notin Rejected
  /\ num_originals + num_augmented = Len(log)

\* C8 as stated: a rejected path causes no output file, no counter increment
\* and no diagnostic, also in a run over a tree of rejected paths only.
C8_RejectedIsSilent ==
  /\ NothingForRejected
  /\ Accepted = {} /\ tree # {} => out = <<>>

\* C8 amended: a rejected path causes no output file, no counter increment
\* and no per-file diagnostic; a run over a tree of rejected paths only prints
\* the one "No images found" line, writes nothing and returns 1.
C8_RejectedOnlyNoImagesLine ==
  /\ NothingForRejected
  /\ Accepted = {} /\ pc = "returned" =>
       /\ out = << Line("no_images", NoPath, 0, <<0, 0>>) >>
       /\ ret = "return 1"
       /\ DOMAIN fs = {}
       /\ num_originals = 0 /\ num_augmented = 0
  /\ Accepted = {} /\ pc # "returned" => out = <<>>

\* C8 witness: a run over a tree of two rejected paths has returned.
C8_Witness ==
  /\ pc = "returned"
  /\ Cardinality(Rejected) = 2
  /\ out = << Line("no_images", NoPath, 0, <<0, 0>>) >>

\* --------------------------------------------------------------------- C9
\* C9: convert_rgb gives a mode-RGB image for every source mode (the image
\* itself when it is RGB, a composite over white for RGBA and LA, the direct
\* conversion otherwise), so every image handed to save_image is RGB and
\* guarantee_rgb_for_jpeg leaves it as it is.
C9_AlwaysRgb ==
  /\ pc = "aug" =>
       /\ base.mode = "RGB"
       /\ im.mode = "RGB" => base = im
       /\ im.mode \in {"RGBA", "LA"} => base = [im EXCEPT !.mode = "RGB", !.bg = "white"]
       /\ im.mode \notin {"RGB", "RGBA", "LA"} => base = [im EXCEPT !.mode = "RGB"]
       /\ aug_of(State).mode = "RGB"
       /\ aug_of(State) = augmentations(base)[k][2]
  /\ \A p \in DOMAIN fs : fs[p].kind = "encoded" => fs[p].mode = "RGB"

\* C9 witness: the last variant of a luminance+alpha source with a JPEG
\* extension is about to be saved.
C9_Witness ==
  /\ pc = "aug"
  /\ im.mode = "LA"
  /\ ext = ".jpg"
  /\ k = 8

\* -------------------------------------------------------------------- C10
\* C10 as stated: no output path is written twice in a run, so at the report
\* each counter equals the number of files of its kind in the output tree.
C10_CountersMatchTree ==
  /\ \A m, n \in DOMAIN log : m # n => log[m].path # log[n].path
  /\ pc = "returned" /\ ret = "return 0" =>
       /\ num_originals = Cardinality({ p \in DOMAIN fs : fs[p].kind = "copy" })
       /\ num_augmented = Cardinality({ p \in DOMAIN fs : fs[p].kind = "encoded" })

====
